---- MODULE Spec2Model ----
(***************************************************************************)
(* BudgetEditor (src/budget_editor.py): one run of main().                 *)
(*                                                                         *)
(* A run parses its arguments, loads a CSV of transactions, filters it by  *)
(* keyword, prepends an "Employment Income" row when none is present,      *)
(* writes the revised CSV, computes the summary and prints it.             *)
(*                                                                         *)
(* Strings are sequences of one-character strings, so splitting,           *)
(* stripping, joining and pattern search are computed character by         *)
(* character, as the Python code and pandas' str.contains compute them.    *)
(* Amounts are integers (money in a fixed scaled unit); the recommended    *)
(* 50/30/20 values are held in hundredths of that unit, which makes the    *)
(* multiplications by 0.50, 0.30 and 0.20 exact.                           *)
(***************************************************************************)
EXTENDS Integers, Sequences, FiniteSets, TLC

VARIABLES
    pc,          \* position of main(): the next statement to run
    args,        \* argparse namespace (income, bad_keywords, centrelink_keyword)
    csv,         \* the input file as found on disk
    df,          \* DataFrame returned by load_transactions
    df_filtered, \* DataFrame returned by filter_transactions
    removed,     \* the two removal counts filter_transactions logs
    df_final,    \* DataFrame returned by add_employment_income
    outfile,     \* the output file on disk
    summary,     \* dict returned by compute_summary
    bad_keywords,\* main's list of stripped bad keywords
    stdout,      \* the report printed, if any
    error,       \* what ended the run early ("" when nothing did)
    exit_status  \* <<>> while running, <<0>> or <<1>> once the process ended

vars == <<pc, args, csv, df, df_filtered, removed, df_final, outfile,
          summary, bad_keywords, stdout, error, exit_status>>

---------------------------------------------------------------------------
(* Bounds *)

\* Largest number of data rows in the input CSV.
MaxRows == 2

---------------------------------------------------------------------------
(* Characters and strings *)

UpperCase == <<"A","B","C","D","E","F","G","H","I","J","K","L","M",
               "N","O","P","Q","R","S","T","U","V","W","X","Y","Z">>
LowerCase == <<"a","b","c","d","e","f","g","h","i","j","k","l","m",
               "n","o","p","q","r","s","t","u","v","w","x","y","z">>

Range(s) == { s[i] : i \in DOMAIN s }

\* str.lower() of one character: what re.IGNORECASE compares.
UpperToLower ==
    [c \in Range(UpperCase) |->
        LowerCase[CHOOSE i \in DOMAIN UpperCase : UpperCase[i] = c]]

Lower(c) == IF c \in DOMAIN UpperToLower THEN UpperToLower[c] ELSE c

\* The missing value pandas puts in a blank Description cell (NaN).
NaN == <<"<NaN>">>
\* The missing timestamp (pd.NaT).
NaT == "NaT"

\* str.split(sep): the pieces of s between occurrences of the character sep;
\* always at least one piece ("".split(",") is [""]).
RECURSIVE SplitFrom(_, _, _, _)
SplitFrom(s, sep, i, cur) ==
    IF i > Len(s) THEN <<cur>>
    ELSE IF s[i] = sep THEN <<cur>> \o SplitFrom(s, sep, i + 1, <<>>)
    ELSE SplitFrom(s, sep, i + 1, Append(cur, s[i]))

split(s, sep) == SplitFrom(s, sep, 1, <<>>)

\* str.strip(): s without leading and trailing blanks.
RECURSIVE strip(_)
strip(s) ==
    IF s = <<>> THEN s
    ELSE IF Head(s) = " " THEN strip(Tail(s))
    ELSE IF s[Len(s)] = " " THEN strip(SubSeq(s, 1, Len(s) - 1))
    ELSE s

\* sep.join(words)
RECURSIVE join(_, _)
join(sep, words) ==
    IF words = <<>> THEN <<>>
    ELSE IF Len(words) = 1 THEN words[1]
    ELSE words[1] \o sep \o join(sep, Tail(words))

---------------------------------------------------------------------------
(* Series.str.contains(pat, case=False, na=False)                          *)
(*                                                                         *)
(* pandas' default is regex=True: pat is compiled with re.IGNORECASE and   *)
(* searched for in each cell.  The patterns that occur here are built from *)
(* letters, blanks, "," (all literals), "|" (alternation) and "$" (end of  *)
(* string), and that is the part of the regular-expression syntax          *)
(* modelled.                                                               *)

\* Does the alternative alt, from its j-th element on, match s at position i?
RECURSIVE MatchFrom(_, _, _, _)
MatchFrom(alt, j, s, i) ==
    IF j > Len(alt) THEN TRUE
    ELSE IF alt[j] = "$" THEN i = Len(s) + 1 /\ MatchFrom(alt, j + 1, s, i)
    ELSE /\ i <= Len(s)
         /\ Lower(s[i]) = Lower(alt[j])
         /\ MatchFrom(alt, j + 1, s, i + 1)

\* re.search(pat, s, re.IGNORECASE) is not None
re_search(pat, s) ==
    \E alt \in Range(split(pat, "|")) :
        \E i \in 1..(Len(s) + 1) : MatchFrom(alt, 1, s, i)

\* One cell of Series.str.contains(pat, case=False, na=False).
str_contains(cell, pat) ==
    IF cell = NaN THEN FALSE ELSE re_search(pat, cell)

---------------------------------------------------------------------------
(* Input universe: what the command line and the input file may hold *)

Centrelink == <<"C","e","n","t","r","e","l","i","n","k">>
income_kw == <<"i","n","c","o","m","e">>
DefaultBadKeywords == <<"b","a","d",",","f","r","a","u","d",",","e","r","r","o","r">>
NoBadKeywords == <<>>
DollarBadKeywords == <<"b","a","d",","," ","U","S","$">>

\* --income
Incomes == {0, 4000}
\* --centrelink_keyword (the first is the default)
CentrelinkKeywordArgs == {Centrelink, income_kw}
\* --bad_keywords (the first is the default)
BadKeywordArgs == {DefaultBadKeywords, NoBadKeywords, DollarBadKeywords}

EmploymentIncome == <<"E","m","p","l","o","y","m","e","n","t"," ",
                      "I","n","c","o","m","e">>
OldIncome == <<"O","l","d"," ","e","m","p","l","o","y","m","e","n","t"," ",
               "i","n","c","o","m","e">>
CentrelinkPay == <<"C","E","N","T","R","E","L","I","N","K"," ","p","a","y">>
Badminton == <<"B","a","d","m","i","n","t","o","n">>
DollarFee == <<"U","S","$"," ","f","e","e">>

\* Description cells of the input file; NaN is a blank cell.
Descriptions == {NaN, OldIncome, CentrelinkPay, Badminton, DollarFee}

\* Amount cells of the input file: a number, a blank, or text that is no number.
Number(n) == [t |-> "num", v |-> n]
Blank == [t |-> "blank", v |-> 0]
Text == [t |-> "text", v |-> 0]
AmountCells == {Number(-50), Number(300), Blank, Text}

CsvRows == [Date : {"2024-01-01"}, Description : Descriptions, Amount : AmountCells]

SeqsUpTo(S, n) == UNION { [1..k -> S] : k \in 0..n }

RequiredColumns == <<"Date", "Description", "Amount">>

\* The input file as found on disk: unreadable, or a header and data rows.
CsvFiles ==
    {[readable |-> FALSE, columns |-> {}, rows |-> <<>>]}
    \cup {[readable |-> TRUE, columns |-> c, rows |-> <<>>] :
            c \in (SUBSET Range(RequiredColumns)) \ {Range(RequiredColumns)}}
    \cup {[readable |-> TRUE, columns |-> Range(RequiredColumns), rows |-> r] :
            r \in SeqsUpTo(CsvRows, MaxRows)}

---------------------------------------------------------------------------
(* DataFrames *)

\* Amount cells of a DataFrame: a float/int, NaN, or a Python str (object column).
NanAmount == [t |-> "nan", v |-> 0]
StrAmount(n) == [t |-> "str", v |-> n]

EmptyFrame == [rows |-> <<>>, desc_dtype |-> "object", amount_dtype |-> "object"]

\* pd.read_csv's type inference, per column: a column with no data is object;
\* an all-blank column is float64 (NaN); a numeric column with text in it is an
\* object column whose non-blank cells are all str.
read_csv(file) ==
    LET rows == file.rows
        hasText == \E i \in DOMAIN rows : rows[i].Amount.t = "text"
        hasBlank == \E i \in DOMAIN rows : rows[i].Amount.t = "blank"
        cell(a) == IF a.t = "blank" THEN NanAmount
                   ELSE IF hasText THEN StrAmount(a.v)
                   ELSE a
    IN [rows |-> [i \in DOMAIN rows |->
                    [Date |-> rows[i].Date,
                     Description |-> rows[i].Description,
                     Amount |-> cell(rows[i].Amount)]],
        desc_dtype |-> IF rows = <<>> THEN "object"
                       ELSE IF \A i \in DOMAIN rows : rows[i].Description = NaN
                            THEN "float64" ELSE "object",
        amount_dtype |-> IF rows = <<>> \/ hasText THEN "object"
                         ELSE IF hasBlank THEN "float64" ELSE "int64"]

\* Series.str raises AttributeError ("Can only use .str accessor with string
\* values") on a column that is not of string/object type.
str_accessor_raises(frame) == frame.desc_dtype # "object"

\* Mutant of DropMatching: drops only the first matching row.
RECURSIVE DropFirst(_, _)
DropFirst(rows, pat) ==
    IF rows = <<>> THEN rows
    ELSE IF str_contains(Head(rows).Description, pat) THEN Tail(rows)
    ELSE <<Head(rows)>> \o DropFirst(Tail(rows), pat)

DropFirstMatching(frame, pat) == [frame EXCEPT !.rows = DropFirst(frame.rows, pat)]

\* df[~df["Description"].str.contains(pat, case=False, na=False)]
DropMatching(frame, pat) ==
    [frame EXCEPT !.rows =
        SelectSeq(frame.rows, LAMBDA r : ~str_contains(r.Description, pat))]

\* filter_transactions: the frame it returns and the two counts it logs.
filter_transactions(frame, centrelink_keyword, keywords) ==
    LET pass1 == DropMatching(frame, centrelink_keyword)
        pass2 == DropMatching(pass1, join(<<"|">>, keywords))
    IN [df |-> pass2,
        removed_centrelink |-> Len(frame.rows) - Len(pass1.rows),
        removed_bad |-> Len(pass1.rows) - Len(pass2.rows)]

\* Mutant of HasEmploymentIncome: an exact, case-sensitive comparison.
HasEmploymentIncomeExact(frame) ==
    \E i \in DOMAIN frame.rows : frame.rows[i].Description = EmploymentIncome

\* df["Description"].str.contains("Employment Income", case=False, na=False).any()
HasEmploymentIncome(frame) ==
    \E i \in DOMAIN frame.rows :
        str_contains(frame.rows[i].Description, EmploymentIncome)

new_row(income) ==
    [Date |-> NaT, Description |-> EmploymentIncome, Amount |-> Number(income)]

\* add_employment_income
add_employment_income(frame, income) ==
    IF ~HasEmploymentIncome(frame)
    THEN [rows |-> <<new_row(income)>> \o frame.rows,
          desc_dtype |-> "object",
          amount_dtype |-> IF frame.amount_dtype = "object" /\ frame.rows # <<>>
                           THEN "object" ELSE "float64"]
    ELSE frame

\* df["Amount"] > 0 raises TypeError when a cell of the column is a str.
compare_raises(frame) ==
    \E i \in DOMAIN frame.rows : frame.rows[i].Amount.t = "str"

RECURSIVE SumAmounts(_)
SumAmounts(rows) ==
    IF rows = <<>> THEN 0 ELSE Head(rows).Amount.v + SumAmounts(Tail(rows))

IsIncome(r) == r.Amount.t = "num" /\ r.Amount.v > 0
IsExpense(r) == r.Amount.t = "num" /\ r.Amount.v < 0

\* Mutant of TotalIncome: sums every amount, whatever its sign.
TotalIncomeUnfiltered(frame) == SumAmounts(frame.rows)

\* df[df["Amount"] > 0]["Amount"].sum()
TotalIncome(frame) == SumAmounts(SelectSeq(frame.rows, IsIncome))
\* df[df["Amount"] < 0]["Amount"].sum()
TotalExpenses(frame) == SumAmounts(SelectSeq(frame.rows, IsExpense))

\* The shares of the 50/30/20 rule, in percent.
NeedsPct == 50
WantsPct == 30
SavingsPct == 20

\* Mutant of Share: the share taken as an integer quotient pct / 100.
ShareIntegerQuotient(full_income, pct) == full_income * (pct \div 100) * 100

\* full_income * share, in hundredths of the unit of full_income.
Share(full_income, pct) == full_income * pct

\* Mutant of compute_summary: the recommendation taken from total_income.
compute_summary_from_total(frame, full_income) ==
    [full_time_income |-> full_income,
     total_income |-> TotalIncome(frame),
     total_expenses |-> TotalExpenses(frame),
     balance |-> TotalIncome(frame) + TotalExpenses(frame),
     recommended |-> [needs |-> Share(TotalIncome(frame), NeedsPct),
                      wants |-> Share(TotalIncome(frame), WantsPct),
                      savings |-> Share(TotalIncome(frame), SavingsPct)]]

\* compute_summary; recommended values are in hundredths.
compute_summary(frame, full_income) ==
    [full_time_income |-> full_income,
     total_income |-> TotalIncome(frame),
     total_expenses |-> TotalExpenses(frame),
     balance |-> TotalIncome(frame) + TotalExpenses(frame),
     recommended |-> [needs |-> Share(full_income, NeedsPct),
                      wants |-> Share(full_income, WantsPct),
                      savings |-> Share(full_income, SavingsPct)]]

---------------------------------------------------------------------------
(* The run *)

NoArgs == [income |-> 0, bad_keywords |-> <<>>, centrelink_keyword |-> <<>>]
NoFile == [readable |-> FALSE, columns |-> {}, rows |-> <<>>]
NoSummary == compute_summary(EmptyFrame, 0)
NotWritten == [written |-> FALSE, rows |-> <<>>]
NoCounts == [centrelink |-> 0, bad |-> 0]

Init ==
    /\ pc = "parse_args"
    /\ args = NoArgs
    /\ bad_keywords = <<>>
    /\ csv = NoFile
    /\ df = EmptyFrame
    /\ df_filtered = EmptyFrame
    /\ removed = NoCounts
    /\ df_final = EmptyFrame
    /\ outfile = NotWritten
    /\ summary = NoSummary
    /\ stdout = <<>>
    /\ error = ""
    /\ exit_status = <<>>

\* sys.exit(1), or an exception nobody catches: the interpreter exits with status 1.
Abort(why) ==
    /\ pc' = "exited"
    /\ error' = why
    /\ exit_status' = <<1>>

\* args = parse_args(); bad_keywords = [word.strip() for word in ...split(",")]
ParseArgs ==
    /\ pc = "parse_args"
    /\ \E i \in Incomes, b \in BadKeywordArgs, c \in CentrelinkKeywordArgs :
        /\ args' = [income |-> i, bad_keywords |-> b, centrelink_keyword |-> c]
        /\ bad_keywords' = [k \in DOMAIN split(b, ",") |-> strip(split(b, ",")[k])]
    /\ pc' = "load"
    /\ UNCHANGED <<csv, df, df_filtered, removed, df_final, outfile, summary,
                   stdout, error, exit_status>>

\* df = load_transactions(args.input)
LoadTransactions ==
    /\ pc = "load"
    /\ \E file \in CsvFiles :
        /\ csv' = file
        /\ IF ~file.readable
           THEN Abort("Failed to read CSV file") /\ UNCHANGED df
           ELSE IF \E i \in DOMAIN RequiredColumns :
                        RequiredColumns[i] \notin file.columns
           THEN Abort("Missing required column") /\ UNCHANGED df
           ELSE /\ df' = read_csv(file)
                /\ pc' = "filter"
                /\ UNCHANGED <<error, exit_status>>
    /\ UNCHANGED <<args, bad_keywords, df_filtered, removed, df_final, outfile,
                   summary, stdout>>

\* df_filtered = filter_transactions(df, args.centrelink_keyword, bad_keywords)
FilterTransactions ==
    /\ pc = "filter"
    /\ IF str_accessor_raises(df)
       THEN Abort("AttributeError") /\ UNCHANGED <<df_filtered, removed>>
       ELSE LET r == filter_transactions(df, args.centrelink_keyword, bad_keywords)
            IN /\ df_filtered' = r.df
               /\ removed' = [centrelink |-> r.removed_centrelink,
                              bad |-> r.removed_bad]
               /\ pc' = "add_income"
               /\ UNCHANGED <<error, exit_status>>
    /\ UNCHANGED <<args, bad_keywords, csv, df, df_final, outfile, summary, stdout>>

\* df_final = add_employment_income(df_filtered, args.income)
AddEmploymentIncome ==
    /\ pc = "add_income"
    /\ IF str_accessor_raises(df_filtered)
       THEN Abort("AttributeError") /\ UNCHANGED df_final
       ELSE /\ df_final' = add_employment_income(df_filtered, args.income)
            /\ pc' = "write"
            /\ UNCHANGED <<error, exit_status>>
    /\ UNCHANGED <<args, bad_keywords, csv, df, df_filtered, removed, outfile,
                   summary, stdout>>

\* df_final.to_csv(args.output, index=False), which the file system lets
\* succeed or fail.
WriteCsv ==
    /\ pc = "write"
    /\ \E writable \in BOOLEAN :
        IF writable
        THEN /\ outfile' = [written |-> TRUE, rows |-> df_final.rows]
             /\ pc' = "summary"
             /\ UNCHANGED <<error, exit_status>>
        ELSE Abort("Failed to write CSV file") /\ UNCHANGED outfile
    /\ UNCHANGED <<args, bad_keywords, csv, df, df_filtered, removed, df_final,
                   summary, stdout>>

\* summary = compute_summary(df_final, args.income)
ComputeSummary ==
    /\ pc = "summary"
    /\ IF compare_raises(df_final)
       THEN Abort("TypeError") /\ UNCHANGED summary
       ELSE /\ summary' = compute_summary(df_final, args.income)
            /\ pc' = "print"
            /\ UNCHANGED <<error, exit_status>>
    /\ UNCHANGED <<args, bad_keywords, csv, df, df_filtered, removed, df_final,
                   outfile, stdout>>

\* The print calls of main; the interpreter then exits with status 0.
PrintReport ==
    /\ pc = "print"
    /\ stdout' = <<summary>>
    /\ pc' = "exited"
    /\ exit_status' = <<0>>
    /\ UNCHANGED <<args, bad_keywords, csv, df, df_filtered, removed, df_final,
                   outfile, summary, error>>

Next ==
    \/ ParseArgs
    \/ LoadTransactions
    \/ FilterTransactions
    \/ AddEmploymentIncome
    \/ WriteCsv
    \/ ComputeSummary
    \/ PrintReport

Spec == Init /\ [][Next]_vars

---------------------------------------------------------------------------
(* Vocabulary of the properties *)

\* kw occurs in s as a substring, compared case-insensitively; a missing
\* description contains nothing.
ContainsCI(s, kw) ==
    /\ s # NaN
    /\ \E i \in 1..(Len(s) - Len(kw) + 1) :
          \A j \in 1..Len(kw) : Lower(s[i + j - 1]) = Lower(kw[j])

\* s contains the exclusion keyword or one of the disqualifying keywords.
ContainsAKeyword(s) ==
    \/ ContainsCI(s, args.centrelink_keyword)
    \/ \E k \in DOMAIN bad_keywords : ContainsCI(s, bad_keywords[k])

IsIncomeRow(r) == ContainsCI(r.Description, EmploymentIncome)
HasNoDescription(r) == r.Description = NaN

RECURSIVE PositiveSum(_)
PositiveSum(rows) ==
    IF rows = <<>> THEN 0
    ELSE (IF Head(rows).Amount.t = "num" /\ Head(rows).Amount.v > 0
          THEN Head(rows).Amount.v ELSE 0) + PositiveSum(Tail(rows))

RECURSIVE NegativeSum(_)
NegativeSum(rows) ==
    IF rows = <<>> THEN 0
    ELSE (IF Head(rows).Amount.t = "num" /\ Head(rows).Amount.v < 0
          THEN Head(rows).Amount.v ELSE 0) + NegativeSum(Tail(rows))

\* filter_transactions has returned.
AfterFilter ==
    \/ pc \in {"add_income", "write", "summary", "print"}
    \/ pc = "exited" /\ error \in {"", "Failed to write CSV file", "TypeError"}

\* add_employment_income has returned.
AfterAddIncome ==
    \/ pc \in {"write", "summary", "print"}
    \/ pc = "exited" /\ error \in {"", "Failed to write CSV file", "TypeError"}

\* compute_summary has returned.
AfterSummary == pc = "print" \/ (pc = "exited" /\ error = "")

---------------------------------------------------------------------------
(* C1: every transaction filter_transactions returns has a description that *)
(* contains, case-insensitively, neither the exclusion keyword nor any      *)
(* disqualifying keyword as a substring; and every input transaction whose  *)
(* description is missing is in the output.                                 *)
C1_FilterCorrectness ==
    AfterFilter =>
        /\ \A i \in DOMAIN df_filtered.rows :
              ~ContainsAKeyword(df_filtered.rows[i].Description)
        /\ SelectSeq(df_filtered.rows, HasNoDescription)
              = SelectSeq(df.rows, HasNoDescription)

(* C2: an empty list of disqualifying keywords removes nothing: with the    *)
(* empty list, and with the list main builds from an empty --bad_keywords,  *)
(* the second pass removes zero transactions and the output is what the     *)
(* exclusion pass left.                                                     *)
C2_EmptyKeywordsRemoveNothing ==
    AfterFilter =>
        /\ filter_transactions(df, args.centrelink_keyword, <<>>).removed_bad = 0
        /\ args.bad_keywords = <<>> =>
              /\ removed.bad = 0
              /\ df_filtered.rows = DropMatching(df, args.centrelink_keyword).rows

(* C3: after filtering and add_employment_income the final ledger holds     *)
(* exactly one transaction whose description contains "employment income",  *)
(* and its amount is the income given on the command line.                  *)
C3_ExactlyOneIncomeRow ==
    AfterAddIncome =>
        /\ Len(SelectSeq(df_final.rows, IsIncomeRow)) = 1
        /\ \A i \in DOMAIN df_final.rows :
              IsIncomeRow(df_final.rows[i]) =>
                  df_final.rows[i].Amount = [t |-> "num", v |-> args.income]

C5_AllOrNothing ==
    pc = "exited" =>
        /\ \/ /\ exit_status = <<0>>
              /\ outfile = [written |-> TRUE, rows |-> df_final.rows]
              /\ stdout = <<summary>>
           \/ /\ exit_status = <<1>>
              /\ ~outfile.written
              /\ stdout = <<>>
        /\ error = "Missing required column" =>
              /\ exit_status = <<1>>
              /\ df_filtered = EmptyFrame /\ df_final = EmptyFrame

C8_Allocation ==
    AfterSummary =>
        LET rec == summary.recommended IN
        /\ rec.needs = 50 * args.income
        /\ rec.wants = 30 * args.income
        /\ rec.savings = 20 * args.income
        /\ rec.needs + rec.wants + rec.savings = 100 * args.income
        /\ args.income = 0 => rec.needs = 0 /\ rec.wants = 0 /\ rec.savings = 0

\* A summary for a non-zero income.
C8_Witness ==
    /\ AfterSummary
    /\ args.income = 4000
    /\ summary.recommended.needs = 200000

(* C9: filtering the filtered ledger again with the same keywords returns   *)
(* it unchanged and removes nothing in either pass; what the first          *)
(* application removed stays removed.                                       *)
C9_FilterIdempotent ==
    AfterFilter =>
        LET again == filter_transactions(df_filtered, args.centrelink_keyword,
                                         bad_keywords)
        IN /\ again.df = df_filtered
           /\ again.removed_centrelink = 0
           /\ again.removed_bad = 0
           /\ Len(again.df.rows)
                 = Len(df.rows) - removed.centrelink - removed.bad

\* The first application removed a row in each pass.
C9_Witness ==
    /\ AfterFilter
    /\ removed.centrelink = 1
    /\ removed.bad = 1

(* C10: the revised ledger that is written and summarised holds no          *)
(* transaction whose description contains the exclusion keyword or a        *)
(* disqualifying keyword.                                                   *)
C10_RevisedLedgerClean ==
    AfterAddIncome =>
        \A i \in DOMAIN df_final.rows :
            ~ContainsAKeyword(df_final.rows[i].Description)

====
